---- MODULE Spec2Model ----
(***************************************************************************)
(* State-machine model of the course/authentication server                 *)
(* (src/unnamed/part_000): the seven HTTP endpoints, the three document    *)
(* collections (Course, User, Admin) and the upload directory.             *)
(*                                                                         *)
(* One action per endpoint.  An action is the whole request: the upload    *)
(* middleware, the handler body, every store call and the response.        *)
(* Strings whose characters matter (email, password) are sequences of      *)
(* one-character strings; an absent (undefined) or empty value is the      *)
(* empty string, both being falsy in the handlers and both failing the     *)
(* store's `required` validator.                                           *)
(***************************************************************************)
EXTENDS Integers, Sequences, FiniteSets, TLC

VARIABLES
    courses,    \* the Course collection, in insertion order
    users,      \* the User collection, in insertion order
    admins,     \* the Admin collection (no endpoint creates an Admin)
    uploads,    \* the upload directory: a set of [name, data] files
    now,        \* Date.now(), in milliseconds
    posts,      \* number of POST /courses requests served so far
    last        \* history: the request served last and its response

vars == <<courses, users, admins, uploads, now, posts, last>>

----------------------------------------------------------------------------
(* Bounds of the model *)

MaxEmails == 3      \* how many of EmailList the requests draw from
MaxPasswords == 2   \* how many of PasswordList the requests draw from
MaxUsers == 2
MaxPosts == 2
MaxClock == 1

----------------------------------------------------------------------------
(* Strings *)

\* The emails and passwords requests carry, besides the absent one.
\* A string is a sequence of characters.
EmailList == << <<"a">>, <<"A">>, <<"b">>, <<"a", "B">>, <<"a", "b">> >>
PasswordList == << <<"p">>, <<"P">>, <<"p", "q">>, <<"p", "Q">> >>

Min(a, b) == IF a < b THEN a ELSE b

Emails == {<<>>} \cup {EmailList[i] : i \in 1..Min(MaxEmails, Len(EmailList))}
Passwords ==
    {<<>>} \cup {PasswordList[i] : i \in 1..Min(MaxPasswords, Len(PasswordList))}
Usernames == {"", "u"}

\* String.prototype.toLowerCase, per character
LowerChar(c) ==
    CASE c = "A" -> "a" [] c = "B" -> "b" [] c = "P" -> "p" [] c = "Q" -> "q"
      [] OTHER -> c

\* the `lowercase: true` setter of userSchema.email
ToLowerCase(s) == [i \in 1..Len(s) |-> LowerChar(s[i])]

----------------------------------------------------------------------------
(* Responses.  status 0 / ctype "none": no response was ever sent. *)

\* A body field that may be missing (token, course) is a sequence of at most
\* one element.
NoToken == <<>>
NoCourse == <<>>

Response(status, ctype, message) ==
    [status |-> status, ctype |-> ctype, message |-> message,
     token |-> NoToken, course |-> NoCourse, list |-> <<>>, text |-> ""]

\* res.status(s).json({ message })
JsonMessage(status, message) == Response(status, "json", message)

\* res.status(s).send(text)
SendText(status, text) == [Response(status, "text", "") EXCEPT !.text = text]

\* res.json({ token }): status defaults to 200
JsonToken(token) == [Response(200, "json", "") EXCEPT !.token = <<token>>]

\* The request was never answered: the handler's promise rejected outside any
\* try block and the framework (Express 4) does not observe the rejection.
Unanswered == Response(0, "none", "")

\* The framework's default error handler: status 500 with an HTML page.
DefaultError == Response(500, "html", "")

\* an error that reaches no catch block of the handler: which of the two
\* outcomes the request gets depends on the framework version in the build
UnhandledOutcomes == {Unanswered, DefaultError}

\* jwt.sign(payload, key, { expiresIn })
JwtSign(payload, key, expiresIn) ==
    [payload |-> payload, key |-> key, expiresIn |-> expiresIn]

----------------------------------------------------------------------------
(* User collection: schema, register, login *)

\* as NewUser, with the email stored as given (no lowercase setter)
NewUserAsGiven(username, email, password) ==
    [username |-> username, email |-> email, password |-> password]

\* new User({ username, email, password }): the schema's setters are applied
NewUser(username, email, password) ==
    [username |-> username, email |-> ToLowerCase(email), password |-> password]

\* the `required: true` validators of userSchema
UserValid(doc) == doc.username # "" /\ doc.email # <<>> /\ doc.password # <<>>

\* the `unique: true` index on email
EmailTaken(coll, email) == \E i \in 1..Len(coll) : coll[i].email = email

\* user.save(): validate, then insert under the unique index
UserSaveOk(coll, doc, storeUp) ==
    UserValid(doc) /\ storeUp /\ ~EmailTaken(coll, doc.email)

\* as UserFindOne, with the password left out of the filter
UserFindOneByEmail(coll, email, password) ==
    {i \in 1..Len(coll) : coll[i].email = ToLowerCase(email)}

\* User.findOne({ email, password }): the filter is cast through the schema,
\* so the email is lowercased before it is compared; the password is not.
\* The result is the set of matches (empty, or one by the unique index).
UserFindOne(coll, email, password) ==
    {i \in 1..Len(coll) :
        coll[i].email = ToLowerCase(email) /\ coll[i].password = password}

Register(username, email, password, storeUp) ==
    LET doc == NewUser(username, email, password)
        ok == UserSaveOk(users, doc, storeUp)
    IN  /\ ok => Len(users) < MaxUsers
        /\ UserValid(doc) \/ storeUp      \* an invalid document never reaches the store
        /\ users' = IF ok
                    THEN Append(users, [id |-> Len(users) + 1,
                                        username |-> doc.username,
                                        email |-> doc.email,
                                        password |-> doc.password])
                    ELSE users
        /\ last' = [op |-> "register",
                    req |-> [username |-> username, email |-> email,
                             password |-> password, storeUp |-> storeUp],
                    resp |-> IF ok
                             THEN SendText(201, "User registered successfully")
                             ELSE SendText(500, "Error registering user")]
        /\ UNCHANGED <<courses, admins, uploads, now, posts>>

\* as AuthLoginResponse, looking the email up first and answering an unknown
\* email with its own message
AuthLoginResponseByStep(coll, email, password, storeUp) ==
    LET known == {i \in 1..Len(coll) : coll[i].email = ToLowerCase(email)}
        found == {i \in known : coll[i].password = password}
    IN  IF ~storeUp THEN JsonMessage(500, "Server error")
        ELSE IF known = {} THEN JsonMessage(404, "User not found")
        ELSE IF found = {}
             THEN JsonMessage(400, "Invalid email or password")
             ELSE LET user == coll[CHOOSE i \in found : TRUE]
                  IN  JsonToken(JwtSign([id |-> user.id, username |-> ""],
                                        "yourSecretKey", "1h"))

\* The response of POST /auth/login
AuthLoginResponse(coll, email, password, storeUp) ==
    LET found == UserFindOne(coll, email, password)
    IN  IF ~storeUp THEN JsonMessage(500, "Server error")
        ELSE IF found = {}
             THEN JsonMessage(400, "Invalid email or password")
             ELSE LET user == coll[CHOOSE i \in found : TRUE]
                  IN  JsonToken(JwtSign([id |-> user.id, username |-> ""],
                                        "yourSecretKey", "1h"))

\* as AuthLogin, writing the issued token onto the User record
AuthLoginStoringToken(email, password, storeUp) ==
    LET resp == AuthLoginResponse(users, email, password, storeUp)
        found == UserFindOne(users, email, password)
    IN  /\ last' = [op |-> "authLogin",
                    req |-> [email |-> email, password |-> password,
                             storeUp |-> storeUp],
                    resp |-> resp]
        /\ users' = IF resp.status = 200
                    THEN [i \in 1..Len(users) |->
                            IF i \in found
                            THEN [id |-> users[i].id,
                                  username |-> users[i].username,
                                  email |-> users[i].email,
                                  password |-> users[i].password,
                                  token |-> resp.token]
                            ELSE users[i]]
                    ELSE users
        /\ UNCHANGED <<courses, admins, uploads, now, posts>>

AuthLogin(email, password, storeUp) ==
    /\ last' = [op |-> "authLogin",
                req |-> [email |-> email, password |-> password,
                         storeUp |-> storeUp],
                resp |-> AuthLoginResponse(users, email, password, storeUp)]
    /\ UNCHANGED <<courses, users, admins, uploads, now, posts>>

----------------------------------------------------------------------------
(* Admin collection *)

AdminNames == {"root", "nobody"}

\* bcrypt.hash(password, 10) and bcrypt.compare(password, hash)
BcryptHash(password) == <<"$2b$10$">> \o password
BcryptCompare(password, hash) == hash = BcryptHash(password)

\* The handlers read the identifiers `Admin`, `bcrypt` and `jwtSecret`, and
\* the file binds none of them (adminSchema is defined, but no model is built
\* from it; bcrypt is never required; jwtSecret is never declared).  Reading
\* an unbound identifier throws a ReferenceError.
AdminBound == FALSE
BcryptBound == FALSE
JwtSecretBound == FALSE

\* The response of POST /admin/login.  Every throw is inside the try block,
\* so the catch block answers; `Admin.findOne` is its first statement.
AdminLoginResponse(coll, username, password) ==
    IF ~AdminBound THEN JsonMessage(500, "Server error")
    ELSE LET found == {a \in coll : a.username = username}
         IN  IF found = {} THEN JsonMessage(400, "Invalid credentials")
             ELSE LET admin == CHOOSE a \in found : TRUE
                  IN  IF ~BcryptBound THEN JsonMessage(500, "Server error")
                      ELSE IF ~BcryptCompare(password, admin.password)
                           THEN JsonMessage(400, "Invalid credentials")
                      ELSE IF ~JwtSecretBound
                           THEN JsonMessage(500, "Server error")
                      ELSE JsonToken(JwtSign([id |-> admin.id,
                                              username |-> admin.username],
                                             "jwtSecret", "1h"))

\* adminSchema declares username and password only: `admin.token = token` is
\* not a schema path, so admin.save() would write no token; as it is, the
\* handler never gets that far.  The Admin collection never changes.
AdminLogin(username, password) ==
    /\ last' = [op |-> "adminLogin",
                req |-> [username |-> username, password |-> password],
                resp |-> AdminLoginResponse(admins, username, password)]
    /\ UNCHANGED <<courses, users, admins, uploads, now, posts>>

\* The response of GET /admin/login?username=
AdminTokenResponse(coll, username) ==
    IF ~AdminBound THEN JsonMessage(500, "Server error")
    ELSE LET found == {a \in coll : a.username = username}
         IN  IF found = {} \/ (CHOOSE a \in found : TRUE).token = NoToken
             THEN JsonMessage(400, "Token not found")
             ELSE [Response(200, "json", "")
                    EXCEPT !.token = (CHOOSE a \in found : TRUE).token]

AdminToken(username) ==
    /\ last' = [op |-> "adminToken",
                req |-> [username |-> username],
                resp |-> AdminTokenResponse(admins, username)]
    /\ UNCHANGED <<courses, users, admins, uploads, now, posts>>

----------------------------------------------------------------------------
(* Course collection and the upload directory *)

FileSizeLimit == 104857600      \* 100 * 1024 * 1024

allowedTypes == {"video/mp4", "video/mpeg"}

Fields == {"videoPreview", "fullVideo"}
OrigNames == {"a.mp4"}

\* A file part of a multipart body; NoPart: the body has no part of that field
NoPart == [present |-> FALSE, originalname |-> "", mimetype |-> "", size |-> 0]
Part(name, mimetype, size) ==
    [present |-> TRUE, originalname |-> name, mimetype |-> mimetype, size |-> size]

\* The parts requests carry: none; one of each allowed type, of exactly the
\* size limit; one a byte over the limit; one of a type that is not allowed.
Parts ==
    {NoPart} \cup
    UNION {{Part(n, "video/mp4", FileSizeLimit),
            Part(n, "video/mpeg", FileSizeLimit),
            Part(n, "video/mp4", FileSizeLimit + 1),
            Part(n, "image/png", FileSizeLimit)} : n \in OrigNames}

CourseNames == {"", "Intro"}
Descriptions == {"", "Basics"}
Prices == {"", "9.99", "free"}
Schemes == {"http"}
Hosts == {"localhost:5000"}

\* Casting a form value to the schema's Number (price, in hundredths);
\* NaN: the value does not cast and validation fails
NaN == -1
CastNumber(s) == CASE s = "9.99" -> 999 [] OTHER -> NaN

\* storage.filename: Date.now() + '-' + file.originalname
NoFile == <<-1, "", "">>
\* req.files of a request none of whose parts was stored
NoFiles == [videoPreview |-> NoFile, fullVideo |-> NoFile]
Filename(t, file) == <<t, "-", file.originalname>>

\* as FileFilter, accepting every part
FileFilterAny(file) == TRUE

\* fileFilter: cb(null, true) iff the part's mimetype is an allowed one
FileFilter(file) == file.mimetype \in allowedTypes

\* limits.fileSize: the stream is cut, and the upload aborted, once a part
\* has delivered more than the limit
OverLimit(file) == file.size > FileSizeLimit

\* The disk storage: writing replaces a file of the same name, removing
\* unlinks by name.
WriteFile(dir, name, data) ==
    {f \in dir : f.name # name} \cup {[name |-> name, data |-> data]}
RemoveFiles(dir, names) == {f \in dir : f.name \notin names}

\* One file part through the upload middleware.  `up` is the state of this
\* request's upload: the directory, the names this request has written, the
\* abort flag and req.files.
HandlePart(up, field, file, t, n) ==
    IF up.aborted \/ ~file.present THEN up
    ELSE IF ~FileFilter(file) THEN [up EXCEPT !.aborted = TRUE]
    ELSE LET name == Filename(t, file)
         IN  [dir |-> WriteFile(up.dir, name, [post |-> n, field |-> field]),
              written |-> up.written \cup {name},
              aborted |-> OverLimit(file),
              files |-> IF OverLimit(file) THEN up.files
                        ELSE [up.files EXCEPT ![field] = name]]

\* as UploadFields, removing this request's files whether or not the upload
\* was aborted
UploadFieldsRemoving(dir, preview, full, t1, t2, n) ==
    LET up0 == [dir |-> dir, written |-> {}, aborted |-> FALSE,
                files |-> NoFiles]
        up1 == HandlePart(up0, "videoPreview", preview, t1, n)
        up2 == HandlePart(up1, "fullVideo", full, t2, n)
    IN  [up2 EXCEPT !.dir = RemoveFiles(up2.dir, up2.written)]

\* upload.fields([{videoPreview}, {fullVideo}]) on a multipart body whose
\* parts arrive in field order; an aborted upload removes every file this
\* request has written before the error is passed on.
UploadFields(dir, preview, full, t1, t2, n) ==
    LET up0 == [dir |-> dir, written |-> {}, aborted |-> FALSE,
                files |-> NoFiles]
        up1 == HandlePart(up0, "videoPreview", preview, t1, n)
        up2 == HandlePart(up1, "fullVideo", full, t2, n)
    IN  IF up2.aborted
        THEN [up2 EXCEPT !.dir = RemoveFiles(up2.dir, up2.written)]
        ELSE up2

\* if (!courseName || !description || !price || !videoPreview || !fullVideo)
MissingField(body, files) ==
    \/ body.courseName = ""
    \/ body.description = ""
    \/ body.price = ""
    \/ files.videoPreview = NoFile
    \/ files.fullVideo = NoFile

\* `${req.protocol}://${req.get('host')}/uploads/${file.filename}`
MediaUrl(scheme, host, filename) == <<scheme, "://", host, "/uploads/", filename>>

\* as NewCourse, with the two files taken for each other
NewCourseSwapped(body, files) ==
    [courseName |-> body.courseName,
     description |-> body.description,
     price |-> CastNumber(body.price),
     videoPreview |-> MediaUrl(body.scheme, body.host, files.fullVideo),
     fullVideo |-> MediaUrl(body.scheme, body.host, files.videoPreview)]

\* new Course({...}) of the handler
NewCourse(body, files) ==
    [courseName |-> body.courseName,
     description |-> body.description,
     price |-> CastNumber(body.price),
     videoPreview |-> MediaUrl(body.scheme, body.host, files.videoPreview),
     fullVideo |-> MediaUrl(body.scheme, body.host, files.fullVideo)]

\* newCourse.save(): validation (the price must cast), then the insert
CourseSaveOk(doc, storeUp) == doc.price # NaN /\ storeUp

Bodies ==
    [courseName : CourseNames, description : Descriptions, price : Prices,
     scheme : Schemes, host : Hosts]

\* the body of a request whose text fields are never read
NoBody == [courseName |-> "", description |-> "", price |-> "",
           scheme |-> "", host |-> ""]

\* What the request was, as far as the properties need it; `files` is
\* req.files as the handler sees it: the storage name of each stored part
PostSummary(multipart, body, preview, full, files, storeUp, n) ==
    [n |-> n, multipart |-> multipart, body |-> body, files |-> files,
     present |-> {f \in Fields :
                    (IF f = "videoPreview" THEN preview ELSE full).present},
     refused |-> {f \in Fields :
                    LET file == IF f = "videoPreview" THEN preview ELSE full
                    IN  file.present /\
                        (file.mimetype \notin allowedTypes
                            \/ file.size > FileSizeLimit)},
     storeUp |-> storeUp]

\* POST /courses with a body that is not multipart: the middleware passes the
\* request on without req.files, and reading req.files['videoPreview']
\* throws before the handler's try block.
PostCoursesPlain(body, outcome) ==
    /\ posts < MaxPosts
    /\ posts' = posts + 1
    /\ last' = [op |-> "postCourses",
                req |-> PostSummary(FALSE, body, NoPart, NoPart, NoFiles,
                                    TRUE, posts + 1),
                resp |-> outcome]
    /\ UNCHANGED <<courses, users, admins, uploads, now>>

\* POST /courses with a multipart body that the upload middleware refuses
\* (a part of a type that is not allowed, or over the size limit): the error
\* goes to the framework's error handler and the route handler never runs,
\* so the text fields of the body are never read.
PostCoursesRefused(preview, full, t1, t2) ==
    /\ posts < MaxPosts
    /\ now <= t1 /\ t1 <= t2
    /\ \E n \in {posts + 1} :
       \E up \in {UploadFields(uploads, preview, full, t1, t2, n)} :
        /\ up.aborted
        /\ posts' = n
        /\ now' = t2
        /\ uploads' = up.dir
        /\ last' = [op |-> "postCourses",
                    req |-> PostSummary(TRUE, NoBody, preview, full, NoFiles,
                                        TRUE, n),
                    resp |-> DefaultError]
        /\ UNCHANGED <<courses, users, admins>>

\* POST /courses with a multipart body that the upload middleware accepts:
\* the route handler runs with req.body and req.files
PostCourses(preview, full, t1, t2) ==
    /\ posts < MaxPosts
    /\ now <= t1 /\ t1 <= t2
    /\ \E n \in {posts + 1} :
       \E up \in {UploadFields(uploads, preview, full, t1, t2, n)} :
        /\ ~up.aborted
        /\ \E body \in Bodies, storeUp \in BOOLEAN :
            LET missing == MissingField(body, up.files)
                doc == NewCourse(body, up.files)
                saved == [id |-> Len(courses) + 1,
                          courseName |-> doc.courseName,
                          description |-> doc.description,
                          price |-> doc.price,
                          videoPreview |-> doc.videoPreview,
                          fullVideo |-> doc.fullVideo]
                ok == ~missing /\ CourseSaveOk(doc, storeUp)
                resp == IF missing
                        THEN JsonMessage(400, "All fields are required.")
                        ELSE IF ok
                             THEN [JsonMessage(201, "Upload successful!")
                                      EXCEPT !.course = <<saved>>]
                             ELSE JsonMessage(500, "Server error")
            IN  /\ missing => storeUp      \* the store is not called
                /\ posts' = n
                /\ now' = t2
                /\ uploads' = up.dir
                /\ courses' = IF ok THEN Append(courses, saved) ELSE courses
                /\ last' = [op |-> "postCourses",
                            req |-> PostSummary(TRUE, body, preview, full,
                                                up.files, storeUp, n),
                            resp |-> resp]
                /\ UNCHANGED <<users, admins>>

\* GET /courses
GetCourses(storeUp) ==
    /\ last' = [op |-> "getCourses",
                req |-> [storeUp |-> storeUp],
                resp |-> IF storeUp
                         THEN [Response(200, "json", "") EXCEPT !.list = courses]
                         ELSE JsonMessage(500, "Server error")]
    /\ UNCHANGED <<courses, users, admins, uploads, now, posts>>

\* The :id parameter: a well-formed store identifier, or not one
IdParams ==
    {[wellFormed |-> TRUE, n |-> i] : i \in 1..MaxPosts}
        \cup {[wellFormed |-> FALSE, n |-> 0]}

\* as GetCourse, removing the Course it returns
GetCourseDeleting(id, storeUp) ==
    LET found == {i \in 1..Len(courses) : courses[i].id = id.n}
        hit == id.wellFormed /\ storeUp /\ found # {}
        resp == IF ~id.wellFormed \/ ~storeUp THEN JsonMessage(500, "Server error")
                ELSE IF found = {} THEN JsonMessage(404, "Course not found")
                ELSE [Response(200, "json", "")
                        EXCEPT !.course = <<courses[CHOOSE i \in found : TRUE]>>]
    IN  /\ last' = [op |-> "getCourse",
                    req |-> [id |-> id, storeUp |-> storeUp],
                    resp |-> resp]
        /\ courses' = IF hit
                      THEN SelectSeq(courses, LAMBDA c : c.id # id.n)
                      ELSE courses
        /\ UNCHANGED <<users, admins, uploads, now, posts>>

\* Course.findById(id): throws a cast error on a malformed id
GetCourse(id, storeUp) ==
    LET found == {i \in 1..Len(courses) : courses[i].id = id.n}
        resp == IF ~id.wellFormed \/ ~storeUp THEN JsonMessage(500, "Server error")
                ELSE IF found = {} THEN JsonMessage(404, "Course not found")
                ELSE [Response(200, "json", "")
                        EXCEPT !.course = <<courses[CHOOSE i \in found : TRUE]>>]
    IN  /\ last' = [op |-> "getCourse",
                    req |-> [id |-> id, storeUp |-> storeUp],
                    resp |-> resp]
        /\ UNCHANGED <<courses, users, admins, uploads, now, posts>>

----------------------------------------------------------------------------

InitLast == [op |-> "none", req |-> [none |-> TRUE], resp |-> Unanswered]

Init ==
    /\ courses = <<>>
    /\ users = <<>>
    /\ admins = {[id |-> 1, username |-> "root",
                  password |-> BcryptHash(<<"p">>), token |-> NoToken]}
    /\ uploads = {}
    /\ now = 0
    /\ posts = 0
    /\ last = InitLast

NextAuth ==
    \/ \E username \in Usernames, email \in Emails, password \in Passwords,
          storeUp \in BOOLEAN : Register(username, email, password, storeUp)
    \/ \E email \in Emails, password \in Passwords, storeUp \in BOOLEAN :
          AuthLogin(email, password, storeUp)
    \/ \E username \in AdminNames, password \in Passwords :
          AdminLogin(username, password)
    \/ \E username \in AdminNames : AdminToken(username)

SpecAuth == Init /\ [][NextAuth]_vars

NextCourses ==
    \/ \E body \in Bodies, outcome \in UnhandledOutcomes :
          PostCoursesPlain(body, outcome)
    \/ \E preview \in Parts, full \in Parts,
          t1 \in 0..MaxClock, t2 \in 0..MaxClock :
          PostCoursesRefused(preview, full, t1, t2)
    \/ \E preview \in Parts, full \in Parts,
          t1 \in 0..MaxClock, t2 \in 0..MaxClock :
          PostCourses(preview, full, t1, t2)
    \/ \E storeUp \in BOOLEAN : GetCourses(storeUp)
    \/ \E id \in IdParams, storeUp \in BOOLEAN : GetCourse(id, storeUp)

SpecCourses == Init /\ [][NextCourses]_vars

Next == NextCourses \/ NextAuth

Spec == Init /\ [][Next]_vars

----------------------------------------------------------------------------
(* Vocabulary of the properties *)

Elems(seq) == {seq[i] : i \in 1..Len(seq)}
FileNames(dir) == {f.name : f \in dir}
IsPrefix(s, t) == Len(s) <= Len(t) /\ \A i \in 1..Len(s) : s[i] = t[i]

\* the file name a media URL ends in
UrlFile(url) == url[5]

\* the files in the directory that hold the bytes of part `field` of POST n
FilesOfPart(dir, n, field) ==
    {f \in dir : f.data = [post |-> n, field |-> field]}

\* a POST /courses with all five inputs, both files compliant
Compliant(req) ==
    /\ req.multipart
    /\ req.body.courseName # "" /\ req.body.description # "" /\ req.body.price # ""
    /\ req.present = Fields
    /\ req.refused = {}

\* a POST /courses in which at least one of the five inputs is absent
\* (and no part is refused by the upload middleware)
SomeInputAbsent(req) ==
    /\ req.refused = {}
    /\ \/ ~req.multipart
       \/ req.body.courseName = "" \/ req.body.description = ""
       \/ req.body.price = ""
       \/ req.present # Fields

\* the store accepts the insert: it is reachable and the price is a number
InsertSucceeds(req) == req.storeUp /\ CastNumber(req.body.price) # NaN

----------------------------------------------------------------------------
(* C1 *)

\* C1: a POST /courses with non-empty courseName, description and price and
\* two compliant files, whose insert succeeds, is answered 201 with the new
\* Course; the collection is the old one with exactly that Course appended;
\* both media URLs of the Course name files present in the upload directory;
\* and GET /courses served next (store reachable) returns a list holding it.
C1_PublishAddsOneCourse ==
    [][ /\ (last'.op = "postCourses" /\ Compliant(last'.req)
                /\ InsertSucceeds(last'.req))
            => /\ last'.resp.status = 201
               /\ Len(courses') = Len(courses) + 1
               /\ IsPrefix(courses, courses')
               /\ last'.resp.course = <<courses'[Len(courses')]>>
               /\ UrlFile(courses'[Len(courses')].videoPreview) \in FileNames(uploads')
               /\ UrlFile(courses'[Len(courses')].fullVideo) \in FileNames(uploads')
        /\ (last.op = "postCourses" /\ last.resp.status = 201
                /\ last'.op = "getCourses" /\ last'.req.storeUp)
            => /\ last'.resp.status = 200
               /\ Len(last.resp.course) = 1
               /\ last.resp.course[1] \in Elems(last'.resp.list)
      ]_vars

\* a second Course has just been published
C1_Witness ==
    /\ last.op = "postCourses" /\ last.resp.status = 201
    /\ Compliant(last.req) /\ InsertSucceeds(last.req)
    /\ Len(courses) = 2
    /\ UrlFile(courses[2].videoPreview) # UrlFile(courses[2].fullVideo)

----------------------------------------------------------------------------
(* C2 *)

\* C2: every POST /courses in which some of the five required inputs is
\* absent (a request with no file part at all included) is answered
\* 400 'All fields are required.' and leaves the course collection unchanged.
C2_MissingFieldAnswered ==
    [][ (last'.op = "postCourses" /\ SomeInputAbsent(last'.req))
            => /\ last'.resp = JsonMessage(400, "All fields are required.")
               /\ courses' = courses
      ]_vars

----------------------------------------------------------------------------
(* C3 *)

\* the request names a stored Admin and carries that Admin's secret
CorrectAdminCredentials(req) ==
    \E a \in admins :
        a.username = req.username /\ BcryptCompare(req.password, a.password)

\* C3: a POST /admin/login with the correct (username, secret) is answered
\* with a token, and that token is then the one stored for the admin; a
\* login with an incorrect secret is answered 400 'Invalid credentials'.
C3_AdminLoginIssuesToken ==
    last.op = "adminLogin" =>
        IF CorrectAdminCredentials(last.req)
        THEN /\ last.resp.status = 200
             /\ last.resp.token # NoToken
             /\ \A a \in admins :
                    a.username = last.req.username => a.token = last.resp.token
        ELSE last.resp = JsonMessage(400, "Invalid credentials")

----------------------------------------------------------------------------
(* C4 *)

\* s and t have the same length and differ in exactly one character
OneCharApart(s, t) ==
    /\ Len(s) = Len(t)
    /\ Cardinality({i \in 1..Len(s) : s[i] # t[i]}) = 1

\* the pair (e, p) differs from (e0, p0) in a single character
SingleCharMutation(e, p, e0, p0) ==
    \/ OneCharApart(e, e0) /\ p = p0
    \/ e = e0 /\ OneCharApart(p, p0)

LoginRejected == JsonMessage(400, "Invalid email or password")

\* the login was answered with a token for user u
LoggedInAs(resp, u) ==
    /\ resp.status = 200
    /\ Len(resp.token) = 1
    /\ resp.token[1].payload.id = u.id

\* The emails user u may have been registered with: NewUser stores the
\* lowercased email, so they are the emails whose lowercase form is stored.
\* The states after registering with any of them are the same state.
SubmittedEmails(u) == {e \in Emails : ToLowerCase(e) = u.email}

\* C4 as stated, for a login served right after the registration it follows:
\* the pair submitted at registration logs in as that user, and every
\* single-character mutation of it (a change of letter case included) is
\* rejected with 400 'Invalid email or password'.
C4_AsStated ==
    [][ (/\ last.op = "register" /\ last.resp.status = 201
         /\ last'.op = "authLogin" /\ last'.req.storeUp)
            => /\ (last'.req.email = last.req.email
                      /\ last'.req.password = last.req.password)
                  => LoggedInAs(last'.resp, users[Len(users)])
               /\ SingleCharMutation(last'.req.email, last'.req.password,
                                     last.req.email, last.req.password)
                  => last'.resp = LoginRejected
      ]_vars

\* C4, amended: with the store reachable, the pair submitted at registration
\* logs in as that user; a single-character mutation of it is rejected with
\* 400 'Invalid email or password', unless it only changes the letter case
\* of the email (then it logs in as the same user) or it is the pair of
\* another stored User (then it logs in as that one).
C4_LoginMatchesLowercasedEmail ==
    (last.op = "authLogin" /\ last.req.storeUp) =>
        \A i \in 1..Len(users) : \A e0 \in SubmittedEmails(users[i]) :
            /\ (last.req.email = e0 /\ last.req.password = users[i].password)
                => LoggedInAs(last.resp, users[i])
            /\ SingleCharMutation(last.req.email, last.req.password,
                                  e0, users[i].password)
                => IF /\ last.req.password = users[i].password
                      /\ ToLowerCase(last.req.email) = ToLowerCase(e0)
                   THEN LoggedInAs(last.resp, users[i])
                   ELSE IF \E j \in 1..Len(users) :
                              /\ ToLowerCase(last.req.email) = users[j].email
                              /\ last.req.password = users[j].password
                        THEN \E j \in 1..Len(users) :
                              /\ ToLowerCase(last.req.email) = users[j].email
                              /\ last.req.password = users[j].password
                              /\ LoggedInAs(last.resp, users[j])
                        ELSE last.resp = LoginRejected

\* with two users stored, a login with the first user's email and a password
\* that differs from that user's in the case of one letter has been rejected
C4_Witness ==
    /\ last.op = "authLogin" /\ last.req.storeUp
    /\ Len(users) = 2
    /\ last.req.email \in SubmittedEmails(users[1])
    /\ OneCharApart(last.req.password, users[1].password)
    /\ ToLowerCase(last.req.password) = ToLowerCase(users[1].password)
    /\ last.resp = LoginRejected

----------------------------------------------------------------------------
(* C5 *)

\* C5: after a POST /courses with a file part of a type outside
\* {video/mp4, video/mpeg} or of more than 100 MiB, the upload directory
\* holds no file for that part and the request has added no Course.
C5_RefusedPartLeavesNothing ==
    [][ (last'.op = "postCourses" /\ last'.req.refused # {})
            => /\ courses' = courses
               /\ last'.resp.status # 201
               /\ \A f \in last'.req.refused :
                      FilesOfPart(uploads', last'.req.n, f) = {}
      ]_vars

\* the preview was stored, then the full video turned out to be refused
C5_Witness ==
    /\ last.op = "postCourses"
    /\ last.req.present = Fields
    /\ last.req.refused = {"fullVideo"}
    /\ last.resp.status = 500

----------------------------------------------------------------------------
(* C6 *)

\* every file in the directory is the target of a media URL of some Course
AllFilesReferenced(dir, coll) ==
    \A f \in dir : \E c \in Elems(coll) :
        f.name \in {UrlFile(c.videoPreview), UrlFile(c.fullVideo)}

\* C6: a POST /courses that ends in an error leaves the course collection
\* and the upload directory as they were, so that between requests every
\* file in the upload directory is referenced by some persisted Course.
C6_FailedPublishLeavesNothing ==
    [][ /\ (last'.op = "postCourses" /\ last'.resp.status # 201)
            => (courses' = courses /\ uploads' = uploads)
        /\ AllFilesReferenced(uploads', courses')
      ]_vars

----------------------------------------------------------------------------
(* C7 *)

\* C7: every request is answered, and every failure is answered with a JSON
\* body carrying a message and an HTTP status.
C7_EveryFailureIsJson ==
    last.op # "none" =>
        /\ last.resp.status # 0
        /\ last.resp.status >= 400
            => (last.resp.ctype = "json" /\ last.resp.message # "")

----------------------------------------------------------------------------
(* C8 *)

\* C8: once a POST /admin/login with correct credentials has completed,
\* GET /admin/login?username= for that admin returns the token that login
\* issued (here: the login served immediately before the lookup).
C8_LookupReturnsLastToken ==
    [][ (last.op = "adminLogin" /\ CorrectAdminCredentials(last.req)
            /\ last'.op = "adminToken"
            /\ last'.req.username = last.req.username)
            => /\ last'.resp.status = 200
               /\ last'.resp.token # NoToken
               /\ last'.resp.token = last.resp.token
      ]_vars

----------------------------------------------------------------------------
(* C9 *)

\* every stored email is lowercase, and no two Users share one
EmailsUniqueLowercase(coll) ==
    /\ \A i \in 1..Len(coll) : coll[i].email = ToLowerCase(coll[i].email)
    /\ \A i, j \in 1..Len(coll) : coll[i].email = coll[j].email => i = j

\* the registration lacks a field, or its email is, up to letter case, the
\* email of a User stored in `coll`
MustFail(coll, req) ==
    \/ req.username = "" \/ req.email = <<>> \/ req.password = <<>>
    \/ \E i \in 1..Len(coll) :
          ToLowerCase(coll[i].email) = ToLowerCase(req.email)

\* C9: in every state every stored email is lowercase and no two Users have
\* the same email; a registration that lacks username, email or password,
\* or whose email equals a stored one up to letter case, fails (500) and
\* leaves the user collection unchanged.
C9_EmailsUniqueAndLowercase ==
    [][ /\ EmailsUniqueLowercase(users')
        /\ (last'.op = "register" /\ MustFail(users, last'.req))
            => (users' = users /\ last'.resp.status = 500)
      ]_vars

\* with two users stored, a registration whose email is the first user's up
\* to letter case (and not letter for letter) has failed
C9_Witness ==
    /\ Len(users) = 2
    /\ last.op = "register" /\ last.req.storeUp
    /\ last.req.username # "" /\ last.req.password # <<>>
    /\ last.req.email # users[1].email
    /\ ToLowerCase(last.req.email) = users[1].email
    /\ last.resp.status = 500

----------------------------------------------------------------------------
(* C10 *)

\* why a POST /auth/login finds no user: "email" if no stored User has the
\* email, "password" if one has but with another password
UserRejectCause(coll, req) ==
    IF \A i \in 1..Len(coll) : coll[i].email # ToLowerCase(req.email)
    THEN "email"
    ELSE IF \A i \in 1..Len(coll) :
                coll[i].email = ToLowerCase(req.email)
                    => coll[i].password # req.password
         THEN "password"
         ELSE "none"

\* why a POST /admin/login is to be rejected: "username" if no stored Admin
\* has the username, "secret" if one has but the secret is not theirs
AdminRejectCause(coll, req) ==
    IF \A a \in coll : a.username # req.username THEN "username"
    ELSE IF ~CorrectAdminCredentials(req) THEN "secret"
    ELSE "none"

\* C10: of two logins served one after the other, one rejected because the
\* email (username) is unknown and the other because the password (secret)
\* is wrong, the responses are identical in status and body; for
\* POST /auth/login with the store reachable both times.
C10_RejectionsIndistinguishable ==
    [][ /\ (/\ last.op = "authLogin" /\ last'.op = "authLogin"
            /\ last.req.storeUp /\ last'.req.storeUp
            /\ UserRejectCause(users, last.req) # "none"
            /\ UserRejectCause(users', last'.req) # "none")
            => last'.resp = last.resp
        /\ (/\ last.op = "adminLogin" /\ last'.op = "adminLogin"
            /\ AdminRejectCause(admins, last.req) # "none"
            /\ AdminRejectCause(admins', last'.req) # "none")
            => last'.resp = last.resp
      ]_vars

\* a login with a stored email and a wrong password has been rejected
C10_Witness ==
    /\ last.op = "authLogin" /\ last.req.storeUp
    /\ UserRejectCause(users, last.req) = "password"
    /\ last.resp.status = 400

----------------------------------------------------------------------------
(* C11 *)

\* the stored Courses whose identifier the :id parameter names
CoursesById(coll, id) == {c \in Elems(coll) : id.wellFormed /\ c.id = id.n}

\* C11: with the store reachable, GET /courses/:id is answered 200 with the
\* stored Course when one matches, 404 when the id is well-formed and matches
\* none, and with a client error (4xx, not 500) when the id is malformed;
\* the course collection is unchanged in every case.
C11_GetCourseOutcomes ==
    [][ (last'.op = "getCourse" /\ last'.req.storeUp)
            => /\ courses' = courses
               /\ IF ~last'.req.id.wellFormed
                  THEN last'.resp.status >= 400 /\ last'.resp.status < 500
                  ELSE IF CoursesById(courses, last'.req.id) = {}
                       THEN last'.resp.status = 404
                       ELSE /\ last'.resp.status = 200
                            /\ Len(last'.resp.course) = 1
                            /\ last'.resp.course[1]
                                  \in CoursesById(courses, last'.req.id)
      ]_vars

----------------------------------------------------------------------------
(* C12 *)

\* C12: POST /courses (multipart) is answered 400 when the upload is rejected
\* for an unsupported media type or an oversized file, 400 when a field is
\* missing, 500 when the save fails, and 201 only when the Course has been
\* persisted.
C12_PublishStatuses ==
    [][ (last'.op = "postCourses" /\ last'.req.multipart)
            => /\ last'.req.refused # {} => last'.resp.status = 400
               /\ (last'.req.refused = {} /\ SomeInputAbsent(last'.req))
                      => last'.resp.status = 400
               /\ (Compliant(last'.req) /\ ~InsertSucceeds(last'.req))
                      => last'.resp.status = 500
               /\ last'.resp.status = 201
                      <=> (/\ Len(courses') = Len(courses) + 1
                           /\ last'.resp.course = <<courses'[Len(courses')]>>)
      ]_vars

----------------------------------------------------------------------------
(* C13 *)

\* C13: a POST /admin/login with a secret that verifies against the stored
\* hash succeeds, and the save it performs leaves the stored credential the
\* hash of that secret (neither the plaintext nor a hash of the hash), so the
\* same secret verifies again afterwards.
C13_HashSurvivesLogin ==
    [][ (last'.op = "adminLogin" /\ CorrectAdminCredentials(last'.req))
            => /\ last'.resp.status = 200
               /\ \A a \in admins' :
                     a.username = last'.req.username
                        => /\ a.password = BcryptHash(last'.req.password)
                           /\ a.password # last'.req.password
                           /\ \E b \in admins :
                                 b.id = a.id /\ b.password = a.password
      ]_vars

----------------------------------------------------------------------------
(* C14 *)

\* C14: every POST /auth/login, and every POST /admin/login that is not
\* answered with a token, leaves the User, Admin and Course collections and
\* the upload directory unchanged; and a POST /auth/login repeated right
\* after itself, under the same store condition, gets the same response.
C14_LoginsHoldNoState ==
    [][ /\ (\/ last'.op = "authLogin"
            \/ last'.op = "adminLogin" /\ last'.resp.status # 200)
            => (/\ users' = users /\ admins' = admins
                /\ courses' = courses /\ uploads' = uploads)
        /\ (last.op = "authLogin" /\ last'.op = "authLogin"
                /\ last'.req = last.req)
            => last'.resp = last.resp
      ]_vars

\* with a Course and its files stored, a registered User has logged in
C14_Witness ==
    /\ last.op = "authLogin" /\ last.resp.status = 200
    /\ Len(users) = 2
    /\ Len(courses) >= 1 /\ uploads # {}

----------------------------------------------------------------------------
(* C15 *)

\* name is <millisecond timestamp>-<original file name>, the timestamp read
\* between times t and u
IsStorageName(name, t, u) ==
    \E ms \in t..u, orig \in OrigNames : name = <<ms, "-", orig>>

\* C15: the Course persisted by a POST /courses has as videoPreview the URL
\* <scheme>://<host>/uploads/<storage name of the videoPreview part> and as
\* fullVideo the same form with the storage name of the fullVideo part, each
\* storage name being <timestamp>-<original file name> with a timestamp read
\* while the request was served; courseName and description are the submitted
\* values and price is the submitted value as a number.
C15_FieldMappingPreserved ==
    [][ (last'.op = "postCourses" /\ last'.resp.status = 201)
            => LET c == courses'[Len(courses')]
                   req == last'.req
               IN  /\ c.videoPreview = <<req.body.scheme, "://", req.body.host,
                                         "/uploads/", req.files.videoPreview>>
                   /\ c.fullVideo = <<req.body.scheme, "://", req.body.host,
                                      "/uploads/", req.files.fullVideo>>
                   /\ IsStorageName(req.files.videoPreview, now, now')
                   /\ IsStorageName(req.files.fullVideo, now, now')
                   /\ c.courseName = req.body.courseName
                   /\ c.description = req.body.description
                   /\ c.price = CastNumber(req.body.price) /\ c.price # NaN
      ]_vars

\* a Course has been published whose two parts got different storage names
C15_Witness ==
    /\ last.op = "postCourses" /\ last.resp.status = 201
    /\ last.req.files.videoPreview # last.req.files.fullVideo
    /\ Len(courses) >= 1
    /\ UrlFile(courses[Len(courses)].fullVideo) = last.req.files.fullVideo

----------------------------------------------------------------------------
(* C16 *)

NonPublishingOps ==
    {"getCourses", "getCourse", "register", "authLogin", "adminLogin",
     "adminToken"}

\* C16: over every sequence of the seven operations, a Course once in the
\* collection stays in it with the same identifier, fields and media URLs;
\* the collection grows only by one Course, in a POST /courses answered 201;
\* GET /courses, GET /courses/:id, register and the logins never change it.
C16_CoursesOnlyAppended ==
    [][ /\ IsPrefix(courses, courses')
        /\ courses' # courses
            => /\ last'.op = "postCourses" /\ last'.resp.status = 201
               /\ Len(courses') = Len(courses) + 1
        /\ last'.op \in NonPublishingOps => courses' = courses
      ]_vars

\* with two Courses stored, the first one has been read by its identifier
C16_Witness ==
    /\ Len(courses) = 2
    /\ last.op = "getCourse" /\ last.resp.status = 200
    /\ last.resp.course = <<courses[1]>>
    /\ Len(users) >= 1

----------------------------------------------------------------------------
(* C17 *)

\* the files of the directory stored under the name a media URL ends in
FilesAt(dir, url) == {f \in dir : f.name = UrlFile(url)}

\* C17: the file named by a media URL of a persisted Course holds the bytes
\* uploaded for that field of that Course: it does so when the Course is
\* persisted, and no later step stores another part under that name or
\* removes the file.
C17_MediaFilesKeepTheirBytes ==
    [][ /\ (last'.op = "postCourses" /\ last'.resp.status = 201)
            => LET c == courses'[Len(courses')]
               IN  /\ FilesAt(uploads', c.videoPreview)
                        = FilesOfPart(uploads', last'.req.n, "videoPreview")
                   /\ FilesAt(uploads', c.fullVideo)
                        = FilesOfPart(uploads', last'.req.n, "fullVideo")
                   /\ FilesAt(uploads', c.videoPreview) # {}
                   /\ FilesAt(uploads', c.fullVideo) # {}
        /\ \A c \in Elems(courses) :
              /\ FilesAt(uploads', c.videoPreview) = FilesAt(uploads, c.videoPreview)
              /\ FilesAt(uploads', c.fullVideo) = FilesAt(uploads, c.fullVideo)
      ]_vars

====
